---- MODULE Spec2Model ----
(***************************************************************************)
(* State-machine model of the sled-backed storage adapter of               *)
(* src/src/storage/src/backend.rs: SledBackendStorage (a table from        *)
(* namespace name to an embedded sled database), its seven BackendStorage  *)
(* operations, the read cursor they hand out and SledErrorMapper.          *)
(*                                                                         *)
(* A sled database is modelled as a function from tree (keyspace) name to  *)
(* tree, a tree as a function from the keys it holds to their values.      *)
(* Every sled call that returns a Result may fail with a native error.     *)
(***************************************************************************)
EXTENDS Integers, Sequences, FiniteSets, TLC

VARIABLES
    namespaces,  \* SledBackendStorage.namespaces: HashMap<String, sled::Db>
    cursor,      \* the ReadCursor most recently handed out by read, and what was pulled from it
    ret,         \* the call in flight: its arguments and the value it returned
    objects      \* history variable: what became of each (namespace, object) pair create_object made

vars == <<namespaces, cursor, ret, objects>>

----------------------------------------------------------------------------
(* Bounds of the model and the input universe.                             *)

MaxBatch == 2
MaxName == 3

Names == {"n1"}
DEFAULT_TREE_ID == "__sled__default"
ObjectNames == {"o1", DEFAULT_TREE_ID}
\* keys are byte strings; of these two the longer one comes first in the engine's order
Keys == {<<2>>, <<1, 0>>}
Values == {"a", "b"}
Row == Keys \X Values
RowBatches == UNION {[1..n -> Row] : n \in 0..MaxBatch}
KeyBatches == UNION {[1..n -> Keys] : n \in 0..MaxBatch}

----------------------------------------------------------------------------
(* The error model.                                                        *)

\* sled::Error: the variant and what it carries, as bytes: the name of the collection,
\* the operation, the place of the corruption (none or one), the description of the
\* bug, the kind of the std::io::Error
Native(variant, payload) == [variant |-> variant, payload |-> payload]
NoNative == Native("none", <<>>)

\* the bytes names are made of: 'A', a continuation byte, the lead byte of a two-byte
\* sequence and a byte no UTF-8 text holds
Bytes == {65, 169, 195, 255}
Texts == UNION {[1..n -> Bytes] : n \in 0..MaxName}

\* the values of sled::Error the mapper is given
NativeErrors ==
    {Native("CollectionNotFound", t) : t \in Texts}
        \cup {Native("Unsupported", <<65>>), Native("ReportableBug", <<65>>)}
        \cup {Native("Corruption", at) : at \in {<<>>, <<1>>}}
        \cup {Native("Io", <<kind>>) : kind \in {1, 2}}

\* the native errors a failing engine call of the adapter returns; the collections of
\* the adapter are named by a &str, so the name in CollectionNotFound is text
Faults ==
    {Native("CollectionNotFound", <<65>>), Native("Unsupported", <<65>>),
     Native("Corruption", <<1>>), Native("Corruption", <<>>),
     Native("ReportableBug", <<65>>), Native("Io", <<1>>)}

\* String::from_utf8 on the bytes from position i on: whether they are UTF-8
RECURSIVE from_utf8(_, _)
from_utf8(bytes, i) ==
    LET continuation(j) == j <= Len(bytes) /\ bytes[j] \in 128..191 IN
    IF i > Len(bytes) THEN TRUE
    ELSE IF bytes[i] < 128 THEN from_utf8(bytes, i + 1)
    ELSE IF bytes[i] \in 194..223
    THEN continuation(i + 1) /\ from_utf8(bytes, i + 2)
    ELSE IF bytes[i] \in 224..239
    THEN /\ continuation(i + 1) /\ continuation(i + 2)
         /\ bytes[i] = 224 => bytes[i + 1] >= 160
         /\ bytes[i] = 237 => bytes[i + 1] <= 159
         /\ from_utf8(bytes, i + 3)
    ELSE IF bytes[i] \in 240..244
    THEN /\ continuation(i + 1) /\ continuation(i + 2) /\ continuation(i + 3)
         /\ bytes[i] = 240 => bytes[i + 1] >= 144
         /\ bytes[i] = 244 => bytes[i + 1] <= 143
         /\ from_utf8(bytes, i + 4)
    ELSE FALSE

\* kernel::SystemError: its kind, the text of the message with what format! puts in
\* it, and whether a cause is carried (the backtrace, the std::io::Error)
SystemError(kind, text, arg, cause) ==
    [kind |-> kind, text |-> text, arg |-> arg, cause |-> cause]
\* .expect("name of system file") on an Err: the mapper panics and returns nothing
Panic == SystemError("panic", "name of system file", <<>>, FALSE)

\* a faulty mapper: every error is unrecoverable, nothing is carried
SledErrorMapper_map_flat(error) == SystemError("unrecoverable", "", <<>>, FALSE)

SledErrorMapper_map(error) ==
    CASE error.variant = "CollectionNotFound" ->
            IF from_utf8(error.payload, 1)
            THEN SystemError("unrecoverable", "System file [{}] can't be found",
                             error.payload, FALSE)
            ELSE Panic
      [] error.variant = "Unsupported" ->
            SystemError("unrecoverable", "Unsupported operation [{}] was used on Sled",
                        error.payload, FALSE)
      [] error.variant = "Corruption" ->
            IF error.payload # <<>>
            THEN SystemError("unrecoverable", "Sled encountered corruption at {}",
                             error.payload, TRUE)
            ELSE SystemError("unrecoverable", "Sled encountered corruption", <<>>, TRUE)
      [] error.variant = "ReportableBug" ->
            SystemError("unrecoverable", "Sled encountered reportable BUG: {}",
                        error.payload, FALSE)
      [] error.variant = "Io" ->
            SystemError("io", "", error.payload, TRUE)

NoError == SystemError("none", "", <<>>, FALSE)

\* A call in flight: the operation and its arguments, then what it returned.
\* SystemResult<Result<T, E>>: res is "SystemError" for Err(_), the domain error for
\* Ok(Err(_)) and "Ok" for Ok(Ok(_)); count is the usize of write and delete.
\* failing tells whether the engine was down during the call (see Down); at is the
\* position in rows or keys of the insertion or removal that failed, 0 when none did.
Call(call, namespace, object_name, rows, keys) ==
    [call |-> call, ns |-> namespace, obj |-> object_name, rows |-> rows, keys |-> keys,
     res |-> "", count |-> 0, native |-> NoNative, err |-> NoError, failing |-> FALSE, at |-> 0]

\* The state of the engine during a call, an input of every call. When it is down
\* every engine call that returns a Result returns an error; when it is not, each
\* such call may still succeed or fail on its own.
Down(c, failing) == [c EXCEPT !.failing = failing]
\* Err(Self::ErrorMapper::map(error)) out of the i-th pass of a loop
SysErrAt(c, error, i) ==
    [c EXCEPT !.res = "SystemError", !.native = error, !.err = SledErrorMapper_map(error),
              !.at = i]

\* a faulty arm that answers an engine error with a domain error
SysErr_swallowed(c, error) == [c EXCEPT !.res = "ObjectDoesNotExist", !.native = error]

\* Err(Self::ErrorMapper::map(error))
SysErr(c, error) ==
    [c EXCEPT !.res = "SystemError", !.native = error, !.err = SledErrorMapper_map(error)]
\* a domain error that gives way to the system error when the engine is down
DomainErr_after(c, e) ==
    IF c.failing
    THEN [c EXCEPT !.res = "SystemError", !.native = Native("Io", <<1>>),
               !.err = SledErrorMapper_map(Native("Io", <<1>>))]
    ELSE [c EXCEPT !.res = e]
\* Ok(Err(e))
DomainErr(c, e) == [c EXCEPT !.res = e]
\* Ok(Ok(n)); n is 0 for the unit results
Success(c, n) == [c EXCEPT !.res = "Ok", !.count = n]

\* no call in flight: the caller has taken the last result
Idle == Call("none", "", "", <<>>, <<>>)

----------------------------------------------------------------------------
(* The backing engine.                                                     *)

EmptyTree == [k \in {} |-> "a"]

\* a faulty open: the new database comes back with the trees earlier objects had
sled_open_stale ==
    [t \in {DEFAULT_TREE_ID} \cup {p[2] : p \in DOMAIN objects} |-> EmptyTree]

\* sled::Config::default().temporary(true).open(): a new database, holding its default tree
sled_open == [t \in {DEFAULT_TREE_ID} |-> EmptyTree]

\* a faulty listing that reports every name, so that no call finds an object missing
tree_names_any(db) == DOMAIN db \cup ObjectNames

\* Db::tree_names
tree_names(db) == DOMAIN db

\* a faulty open_tree that hands out the tree emptied
open_tree_emptied(db, name) ==
    [t \in DOMAIN db \cup {name} |-> IF t = name THEN EmptyTree ELSE db[t]]

\* Db::open_tree: the tree of that name, created empty when there is none
open_tree(db, name) ==
    IF name \in DOMAIN db THEN db
    ELSE [t \in DOMAIN db \cup {name} |-> IF t = name THEN EmptyTree ELSE db[t]]

\* a faulty drop_tree: reports the tree dropped and leaves it in place
drop_tree_keeps(db, name) ==
    IF name = DEFAULT_TREE_ID THEN [result |-> "Unsupported", db |-> db]
    ELSE [result |-> IF name \in DOMAIN db THEN "true" ELSE "false", db |-> db]

\* Db::drop_tree: refuses the default tree, reports whether a tree of that name was there
drop_tree(db, name) ==
    IF name = DEFAULT_TREE_ID THEN [result |-> "Unsupported", db |-> db]
    ELSE IF name \in DOMAIN db
    THEN [result |-> "true", db |-> [t \in DOMAIN db \ {name} |-> db[t]]]
    ELSE [result |-> "false", db |-> db]

\* Tree::insert: sets the key, returns the value it had (NoValue: None)
NoValue == "-"
\* a faulty insert: the first value written to a key stays
tree_insert_first(tree, key, values) ==
    [tree |-> [k \in DOMAIN tree \cup {key} |->
                  IF k \in DOMAIN tree THEN tree[k] ELSE values],
     old |-> IF key \in DOMAIN tree THEN tree[key] ELSE NoValue]
tree_insert(tree, key, values) ==
    [tree |-> [k \in DOMAIN tree \cup {key} |-> IF k = key THEN values ELSE tree[k]],
     old |-> IF key \in DOMAIN tree THEN tree[key] ELSE NoValue]

\* the order of the keys of a tree: IVec compares as the byte slices do, byte by byte,
\* a proper prefix before what it is a prefix of
Less(a, b) ==
    \E i \in 1..Len(b) :
        /\ \A j \in 1..(i - 1) : j <= Len(a) /\ a[j] = b[j]
        /\ i > Len(a) \/ a[i] < b[i]

\* a faulty remove: takes out the key and every key above it
tree_remove_range(tree, key) ==
    [tree |-> [k \in {j \in DOMAIN tree : Less(j, key)} |-> tree[k]],
     old |-> IF key \in DOMAIN tree THEN tree[key] ELSE NoValue]

\* Tree::remove: unsets the key, returns the value it had (NoValue: None)
tree_remove(tree, key) ==
    [tree |-> [k \in DOMAIN tree \ {key} |-> tree[k]],
     old |-> IF key \in DOMAIN tree THEN tree[key] ELSE NoValue]

\* a faulty iteration that takes the shorter keys first
iter_next_by_length(tree, pos) ==
    LET before(a, b) == Len(a) < Len(b) \/ (Len(a) = Len(b) /\ Less(a, b))
        above == {k \in DOMAIN tree : pos = <<>> \/ before(pos[1], k)}
    IN  IF above = {} THEN <<>>
        ELSE << CHOOSE k \in above : \A j \in above : k = j \/ before(k, j) >>

\* Tree::iter, one step: the least key above the last one returned (pos holds it, and
\* nothing before the first step); no key when there is none above
iter_next(tree, pos) ==
    LET above == {k \in DOMAIN tree : pos = <<>> \/ Less(pos[1], k)} IN
    IF above = {} THEN <<>>
    ELSE << CHOOSE k \in above : \A j \in above : k = j \/ Less(k, j) >>

----------------------------------------------------------------------------
(* The adapter.                                                            *)

NoCursor ==
    [state |-> "none", ns |-> "", obj |-> "", handle |-> "none", pos |-> <<>>,
     out |-> <<>>, tree |-> EmptyTree]

\* the states of the history variable in which the object stands
Live == {"created", "created_again"}

Init ==
    /\ namespaces = [n \in {} |-> sled_open]
    /\ objects = [p \in {} |-> "created"]
    /\ cursor = NoCursor
    /\ ret = Idle

\* a faulty remove that leaves the entry in the table
MapRemove_keeps(m, k) == m

\* a faulty remove that clears the table
MapRemove_all(m, k) == [x \in {} |-> sled_open]

\* a faulty remove that leaves the name in the table, with a new database
MapRemove_empties(m, k) == [x \in DOMAIN m |-> IF x = k THEN sled_open ELSE m[x]]

\* a faulty lookup that finds the keys that are not there
contains_key_not(m, k) == k \notin DOMAIN m

\* a faulty lookup that never finds the key
contains_key_never(m, k) == FALSE

\* a faulty insert that lets go of the value instead of keeping it
MapInsert_lost(m, k, v) == m

\* HashMap::insert / HashMap::remove on the namespace table
MapInsert(m, k, v) == [x \in DOMAIN m \cup {k} |-> IF x = k THEN v ELSE m[x]]
MapRemove(m, k) == [x \in DOMAIN m \ {k} |-> m[x]]

\* HashMap::contains_key
contains_key(m, k) == k \in DOMAIN m

create_namespace(namespace) ==
    \E failing \in BOOLEAN :
    LET c == Down(Call("create_namespace", namespace, "", <<>>, <<>>), failing) IN
    IF contains_key(namespaces, namespace)
    THEN /\ ret' = DomainErr(c, "NamespaceAlreadyExists")
         /\ UNCHANGED <<namespaces, objects, cursor>>
    ELSE \/ /\ ~failing
            /\ namespaces' = MapInsert(namespaces, namespace, sled_open)
            /\ ret' = Success(c, 0)
            /\ UNCHANGED <<objects, cursor>>
         \/ \E error \in Faults :
               /\ ret' = SysErr(c, error)
               /\ UNCHANGED <<namespaces, objects, cursor>>

\* what drop(namespace) leaves of a cursor: the Tree handle inside the iterator keeps
\* the tree of the dropped database alive, out of reach of every later call
DetachCursor(c, namespace) ==
    IF c.state = "open" /\ c.handle = "live" /\ c.ns = namespace
    THEN [c EXCEPT !.handle = "orphan", !.tree = namespaces[namespace][c.obj]]
    ELSE c

drop_namespace(namespace) ==
    \E failing \in BOOLEAN :
    LET c == Down(Call("drop_namespace", namespace, "", <<>>, <<>>), failing) IN
    IF namespace \in DOMAIN namespaces
    THEN /\ namespaces' = MapRemove(namespaces, namespace)
         /\ ret' = Success(c, 0)
         /\ cursor' = DetachCursor(cursor, namespace)
         /\ objects' = [p \in DOMAIN objects |-> IF p[1] = namespace /\ objects[p] \in Live
                                                  THEN "drop_namespace" ELSE objects[p]]
    ELSE /\ ret' = DomainErr(c, "NamespaceDoesNotExist")
         /\ UNCHANGED <<namespaces, objects, cursor>>

create_object(namespace, object_name) ==
    \E failing \in BOOLEAN :
    LET c == Down(Call("create_object", namespace, object_name, <<>>, <<>>), failing) IN
    IF namespace \notin DOMAIN namespaces
    THEN /\ ret' = DomainErr(c, "NamespaceDoesNotExist")
         /\ UNCHANGED <<namespaces, objects, cursor>>
    ELSE IF object_name \in tree_names(namespaces[namespace])
    THEN /\ ret' = DomainErr(c, "ObjectAlreadyExists")
         /\ UNCHANGED <<namespaces, objects, cursor>>
    ELSE \/ /\ ~failing
            /\ namespaces' = [namespaces EXCEPT ![namespace] = open_tree(@, object_name)]
            /\ ret' = Success(c, 0)
            /\ objects' = MapInsert(objects, <<namespace, object_name>>,
                                    IF /\ <<namespace, object_name>> \in DOMAIN objects
                                       /\ objects[<<namespace, object_name>>] = "drop_namespace"
                                    THEN "created_again" ELSE "created")
            /\ UNCHANGED cursor
         \/ \E error \in Faults :
               /\ ret' = SysErr(c, error)
               /\ UNCHANGED <<namespaces, objects, cursor>>

\* what Db::drop_tree leaves of a cursor over the dropped tree: the tree's root is
\* invalidated, so the handle inside the iterator no longer finds the collection
InvalidateCursor(c, namespace, object_name) ==
    IF c.state = "open" /\ c.handle = "live" /\ c.ns = namespace /\ c.obj = object_name
    THEN [c EXCEPT !.handle = "dropped"]
    ELSE c

drop_object(namespace, object_name) ==
    \E failing \in BOOLEAN :
    LET c == Down(Call("drop_object", namespace, object_name, <<>>, <<>>), failing) IN
    IF namespace \notin DOMAIN namespaces
    THEN /\ ret' = DomainErr(c, "NamespaceDoesNotExist")
         /\ UNCHANGED <<namespaces, objects, cursor>>
    ELSE LET dropped == drop_tree(namespaces[namespace], object_name) IN
         \/ /\ ~failing
            /\ dropped.result = "true"
            /\ namespaces' = [namespaces EXCEPT ![namespace] = dropped.db]
            /\ ret' = Success(c, 0)
            /\ cursor' = InvalidateCursor(cursor, namespace, object_name)
            /\ objects' = MapInsert(objects, <<namespace, object_name>>, "drop_object")
         \/ /\ ~failing
            /\ dropped.result = "false"
            /\ ret' = DomainErr(c, "ObjectDoesNotExist")
            /\ UNCHANGED <<namespaces, objects, cursor>>
         \/ /\ dropped.result = "Unsupported"
            /\ ret' = SysErr(c, Native("Unsupported", <<65>>))
            /\ UNCHANGED <<namespaces, objects, cursor>>
         \/ \E error \in Faults :
               /\ ret' = SysErr(c, error)
               /\ UNCHANGED <<namespaces, objects, cursor>>

\* the for loop of write, after n insertions that did not fail
\* a faulty count: only the rows that made a new key are counted
RECURSIVE write_rows_new(_, _, _)
write_rows_new(object, rows, n) ==
    IF n = 0 THEN [tree |-> object, written_rows |-> 0]
    ELSE LET before == write_rows_new(object, rows, n - 1)
             put == tree_insert(before.tree, rows[n][1], rows[n][2])
         IN  [tree |-> put.tree,
              written_rows |-> before.written_rows + IF put.old = NoValue THEN 1 ELSE 0]

\* a faulty loop: the rows are kept only when every insertion went through
RECURSIVE insert_all(_, _, _)
insert_all(object, rows, n) ==
    IF n = 0 THEN [tree |-> object, written_rows |-> 0]
    ELSE LET before == insert_all(object, rows, n - 1) IN
         [tree |-> tree_insert(before.tree, rows[n][1], rows[n][2]).tree,
          written_rows |-> before.written_rows + 1]
write_rows_atomic(object, rows, n) ==
    IF n < Len(rows) THEN [tree |-> object, written_rows |-> 0]
    ELSE insert_all(object, rows, n)

RECURSIVE write_rows(_, _, _)
write_rows(object, rows, n) ==
    IF n = 0 THEN [tree |-> object, written_rows |-> 0]
    ELSE LET before == write_rows(object, rows, n - 1) IN
         [tree |-> tree_insert(before.tree, rows[n][1], rows[n][2]).tree,
          written_rows |-> before.written_rows + 1]

write(namespace, object_name, rows) ==
    \E failing \in BOOLEAN :
    LET c == Down(Call("write", namespace, object_name, rows, <<>>), failing) IN
    IF namespace \notin DOMAIN namespaces
    THEN /\ ret' = DomainErr(c, "NamespaceDoesNotExist")
         /\ UNCHANGED <<namespaces, objects, cursor>>
    ELSE IF object_name \notin tree_names(namespaces[namespace])
    THEN /\ ret' = DomainErr(c, "ObjectDoesNotExist")
         /\ UNCHANGED <<namespaces, objects, cursor>>
    ELSE LET db == open_tree(namespaces[namespace], object_name)
             object == db[object_name]
         IN
         \/ \E error \in Faults :
               /\ ret' = SysErr(c, error)
               /\ UNCHANGED <<namespaces, objects, cursor>>
         \/ LET after == write_rows(object, rows, Len(rows)) IN
               /\ ~failing
               /\ namespaces' = [namespaces EXCEPT ![namespace] =
                                    [db EXCEPT ![object_name] = after.tree]]
               /\ ret' = Success(c, after.written_rows)
               /\ UNCHANGED <<objects, cursor>>
         \/ \E i \in 1..Len(rows), error \in Faults :
               /\ ~failing
               /\ namespaces' = [namespaces EXCEPT ![namespace] =
                                    [db EXCEPT ![object_name] =
                                        write_rows(object, rows, i - 1).tree]]
               /\ ret' = SysErrAt(c, error, i)
               /\ UNCHANGED <<objects, cursor>>

read(namespace, object_name) ==
    \E failing \in BOOLEAN :
    LET c == Down(Call("read", namespace, object_name, <<>>, <<>>), failing) IN
    IF namespace \notin DOMAIN namespaces
    THEN /\ ret' = DomainErr(c, "NamespaceDoesNotExist")
         /\ UNCHANGED <<namespaces, objects, cursor>>
    ELSE IF object_name \notin tree_names(namespaces[namespace])
    THEN /\ ret' = DomainErr(c, "ObjectDoesNotExist")
         /\ UNCHANGED <<namespaces, objects, cursor>>
    ELSE \/ \E error \in Faults :
               /\ ret' = SysErr(c, error)
               /\ UNCHANGED <<namespaces, objects, cursor>>
         \/ /\ ~failing
            /\ cursor' = [NoCursor EXCEPT !.state = "open", !.ns = namespace,
                                          !.obj = object_name, !.handle = "live"]
            /\ ret' = Success(c, 0)
            /\ namespaces' = [namespaces EXCEPT ![namespace] = open_tree(@, object_name)]
            /\ UNCHANGED objects

\* a faulty loop: the removal that fails has taken its key out all the same
delete_keys_through(object, keys, n) ==
    LET upto == IF n < Len(keys) THEN n + 1 ELSE n
        gone == {keys[i] : i \in 1..upto}
    IN  [tree |-> [k \in DOMAIN object \ gone |-> object[k]], deleted |-> n]

\* the for loop of delete, after n removals that did not fail
RECURSIVE delete_keys(_, _, _)
delete_keys(object, keys, n) ==
    IF n = 0 THEN [tree |-> object, deleted |-> 0]
    ELSE LET before == delete_keys(object, keys, n - 1) IN
         [tree |-> tree_remove(before.tree, keys[n]).tree,
          deleted |-> before.deleted + 1]

delete(namespace, object_name, keys) ==
    \E failing \in BOOLEAN :
    LET c == Down(Call("delete", namespace, object_name, <<>>, keys), failing) IN
    IF namespace \notin DOMAIN namespaces
    THEN /\ ret' = DomainErr(c, "NamespaceDoesNotExist")
         /\ UNCHANGED <<namespaces, objects, cursor>>
    ELSE IF object_name \notin tree_names(namespaces[namespace])
    THEN /\ ret' = DomainErr(c, "ObjectDoesNotExist")
         /\ UNCHANGED <<namespaces, objects, cursor>>
    ELSE LET db == open_tree(namespaces[namespace], object_name)
             object == db[object_name]
         IN
         \/ \E error \in Faults :
               /\ ret' = SysErr(c, error)
               /\ UNCHANGED <<namespaces, objects, cursor>>
         \/ LET after == delete_keys(object, keys, Len(keys)) IN
               /\ ~failing
               /\ namespaces' = [namespaces EXCEPT ![namespace] =
                                    [db EXCEPT ![object_name] = after.tree]]
               /\ ret' = Success(c, after.deleted)
               /\ UNCHANGED <<objects, cursor>>
         \/ \E i \in 1..Len(keys), error \in Faults :
               /\ ~failing
               /\ namespaces' = [namespaces EXCEPT ![namespace] =
                                    [db EXCEPT ![object_name] =
                                        delete_keys(object, keys, i - 1).tree]]
               /\ ret' = SysErrAt(c, error, i)
               /\ UNCHANGED <<objects, cursor>>

\* the items of a ReadCursor: Ok((key, values)) and Err(system error)
RowItem(key, values) ==
    [key |-> key, values |-> values, native |-> NoNative, err |-> NoError]
ErrItem(error) ==
    [key |-> <<>>, values |-> NoValue, native |-> error, err |-> SledErrorMapper_map(error)]

\* the tree the cursor's handle reaches
CursorTree ==
    IF cursor.handle = "live" THEN namespaces[cursor.ns][cursor.obj] ELSE cursor.tree

\* one pull from the cursor: Iterator::next on the mapped sled iterator. The caller
\* pulls until the cursor ends or yields an error.
pull ==
    /\ cursor.state = "open"
    /\ UNCHANGED <<namespaces, objects, ret>>
    /\ IF cursor.handle = "dropped"
       THEN cursor' = [cursor EXCEPT !.out = Append(@, ErrItem(Native("CollectionNotFound", <<65>>))),
                                     !.state = "failed"]
       ELSE LET key == iter_next(CursorTree, cursor.pos) IN
            \/ \E error \in Faults :
                  cursor' = [cursor EXCEPT !.out = Append(@, ErrItem(error)),
                                           !.state = "failed"]
            \/ /\ key # <<>>
               /\ cursor' = [cursor EXCEPT !.out = Append(@, RowItem(key[1], CursorTree[key[1]])),
                                           !.pos = key]
            \/ /\ key = <<>>
               /\ cursor' = [cursor EXCEPT !.state = "done"]

\* the caller lets go of the cursor (the Box<dyn Iterator> is dropped)
discard ==
    /\ cursor.state # "none"
    /\ cursor' = NoCursor
    /\ UNCHANGED <<namespaces, objects, ret>>

\* the caller takes the result of the call it made
resume ==
    /\ ret # Idle
    /\ ret' = Idle
    /\ UNCHANGED <<namespaces, objects, cursor>>

\* The steps of a caller, one at a time: it makes a call, then takes its result. A
\* caller that holds a cursor pulls from it until it ends or fails and then discards
\* it; while the cursor is open it may also drop the object or the namespace under
\* it. It makes the other calls while it holds no cursor.
Ready == ret = Idle
Free == ret = Idle /\ cursor.state = "none"
Dropping == ret = Idle /\ cursor.state \in {"none", "open"}

Next ==
    \/ Free /\ \E n \in Names : create_namespace(n)
    \/ Dropping /\ \E n \in Names : drop_namespace(n)
    \/ Free /\ \E n \in Names, o \in ObjectNames : create_object(n, o)
    \/ Dropping /\ \E n \in Names, o \in ObjectNames : drop_object(n, o)
    \/ Free /\ \E n \in Names, o \in ObjectNames, rows \in RowBatches : write(n, o, rows)
    \/ Free /\ \E n \in Names, o \in ObjectNames : read(n, o)
    \/ Free /\ \E n \in Names, o \in ObjectNames, keys \in KeyBatches : delete(n, o, keys)
    \/ Ready /\ pull
    \/ Ready /\ discard
    \/ resume

Spec == Init /\ [][Next]_vars

\* The same adapter with two namespaces in use and batches of at most one row or key,
\* for what is said of one namespace against another. The caller holds no cursor here.
TwoNames == {"n1", "n2"}
OneRow == {<<>>, << <<<<2>>, "a">> >>, << <<<<1, 0>>, "b">> >>}
OneKey == {<<>>} \cup {<<k>> : k \in Keys}

NextTwo ==
    \/ Free /\ \E n \in TwoNames : create_namespace(n)
    \/ Free /\ \E n \in TwoNames : drop_namespace(n)
    \/ Free /\ \E n \in TwoNames, o \in ObjectNames : create_object(n, o)
    \/ Free /\ \E n \in TwoNames, o \in ObjectNames : drop_object(n, o)
    \/ Free /\ \E n \in TwoNames, o \in ObjectNames, rows \in OneRow : write(n, o, rows)
    \/ Free /\ \E n \in TwoNames, o \in ObjectNames, keys \in OneKey : delete(n, o, keys)
    \/ resume

SpecTwo == Init /\ [][NextTwo]_vars

\* The mapper on its own: it is handed any value of sled::Error and maps it.
InitMap ==
    /\ namespaces = [n \in {} |-> sled_open]
    /\ objects = [p \in {} |-> "created"]
    /\ cursor = NoCursor
    /\ ret \in {[Idle EXCEPT !.call = "map", !.native = error] : error \in NativeErrors}

map ==
    /\ ret.call = "map"
    /\ ret.res = ""
    /\ ret' = [ret EXCEPT !.res = "mapped", !.err = SledErrorMapper_map(ret.native)]
    /\ UNCHANGED <<namespaces, objects, cursor>>

NextMap == map

SpecMap == InitMap /\ [][NextMap]_vars

----------------------------------------------------------------------------
(* What the claims speak of.                                               *)

\* the objects create_object made and no drop has unmade since
Created == {p \in DOMAIN objects : objects[p] \in Live}
\* the objects that were made once and are gone
Dropped == {p \in DOMAIN objects : objects[p] \notin Live}

\* a step that makes the call, and the call it makes (ret' holds its arguments and result)
Calls(call) == ret = Idle /\ ret'.call = call
\* the call did not end in a system error
NoFailure == ret'.res # "SystemError"

\* the tree behind (namespace, object), EmptyTree when there is none
TreeOf(n, o) ==
    IF n \in DOMAIN namespaces /\ o \in DOMAIN namespaces[n] THEN namespaces[n][o] ELSE EmptyTree

KeySet(keys) == {keys[i] : i \in DOMAIN keys}

\* the value of the last row of the batch that names the key, NoValue when none does
LastWrite(rows, key) ==
    LET at == {i \in DOMAIN rows : rows[i][1] = key} IN
    IF at = {} THEN NoValue ELSE rows[CHOOSE i \in at : \A j \in at : j <= i][2]

----------------------------------------------------------------------------
\* C1: create_namespace(n) that meets no engine failure returns success exactly when
\* n is not present and NamespaceAlreadyExists exactly when it is; after a success n
\* is present and the namespace is new: it has no objects and holds no rows.
C1_Step ==
    Calls("create_namespace") /\ NoFailure =>
        LET n == ret'.ns IN
        /\ (ret'.res = "Ok") <=> (n \notin DOMAIN namespaces)
        /\ (ret'.res = "NamespaceAlreadyExists") <=> (n \in DOMAIN namespaces)
        /\ ret'.res = "Ok" =>
              /\ n \in DOMAIN namespaces'
              /\ \A o \in ObjectNames : <<n, o>> \notin Created'
              /\ \A t \in DOMAIN namespaces'[n] : namespaces'[n][t] = EmptyTree
C1_CreateNamespace == [][C1_Step]_vars

\* a second create_namespace of a present name was answered NamespaceAlreadyExists
C1_Witness ==
    /\ ret.call = "create_namespace"
    /\ ret.res = "NamespaceAlreadyExists"
    /\ ret.ns \in DOMAIN namespaces

\* C2: drop_namespace(n) returns NamespaceDoesNotExist exactly when n is not present,
\* and then leaves the namespace table as it was; otherwise it returns success and n
\* is no longer present. It never returns a system error.
C2_Step ==
    Calls("drop_namespace") =>
        LET n == ret'.ns IN
        /\ ret'.res # "SystemError"
        /\ (ret'.res = "NamespaceDoesNotExist") <=> (n \notin DOMAIN namespaces)
        /\ n \notin DOMAIN namespaces => namespaces' = namespaces
        /\ n \in DOMAIN namespaces => ret'.res = "Ok" /\ n \notin DOMAIN namespaces'
C2_DropNamespace == [][C2_Step]_vars

\* a present namespace was dropped
C2_Witness ==
    /\ ret.call = "drop_namespace"
    /\ ret.res = "Ok"
    /\ ret.ns \notin DOMAIN namespaces

\* C3: create_object(ns, obj) that meets no engine failure returns NamespaceDoesNotExist
\* if ns is absent, ObjectAlreadyExists if ns is present and obj is an object of ns,
\* and otherwise succeeds and makes obj an object of ns.
C3_Step ==
    Calls("create_object") /\ NoFailure =>
        LET n == ret'.ns
            pair == <<ret'.ns, ret'.obj>>
        IN  /\ n \notin DOMAIN namespaces => ret'.res = "NamespaceDoesNotExist"
            /\ n \in DOMAIN namespaces /\ pair \in Created => ret'.res = "ObjectAlreadyExists"
            /\ n \in DOMAIN namespaces /\ pair \notin Created =>
                  ret'.res = "Ok" /\ pair \in Created'
C3_CreateObject == [][C3_Step]_vars

\* C4: drop_object(ns, obj) that meets no engine failure returns NamespaceDoesNotExist if
\* ns is absent, ObjectDoesNotExist if ns is present and obj is not an object of ns, and
\* otherwise succeeds and obj is no longer an object of ns; on an object that drop_object
\* removed, create_object then succeeds, and write, read and delete return
\* ObjectDoesNotExist.
C4_Step ==
    /\ Calls("drop_object") /\ NoFailure =>
          LET n == ret'.ns
              pair == <<ret'.ns, ret'.obj>>
          IN  /\ n \notin DOMAIN namespaces => ret'.res = "NamespaceDoesNotExist"
              /\ n \in DOMAIN namespaces /\ pair \notin Created =>
                    ret'.res = "ObjectDoesNotExist"
              /\ n \in DOMAIN namespaces /\ pair \in Created =>
                    /\ ret'.res = "Ok"
                    /\ pair \notin Created'
                    /\ ret'.obj \notin tree_names(namespaces'[n])
    /\ /\ ret = Idle
       /\ ret'.call \in {"create_object", "write", "read", "delete"}
       /\ NoFailure
       /\ ret'.ns \in DOMAIN namespaces
       /\ <<ret'.ns, ret'.obj>> \in DOMAIN objects
       /\ objects[<<ret'.ns, ret'.obj>>] = "drop_object"
       => ret'.res = IF ret'.call = "create_object" THEN "Ok" ELSE "ObjectDoesNotExist"
C4_DropObject == [][C4_Step]_vars

\* a write to an object that drop_object removed was answered ObjectDoesNotExist
C4_Witness ==
    /\ ret.call = "write"
    /\ ret.res = "ObjectDoesNotExist"
    /\ <<ret.ns, ret.obj>> \in DOMAIN objects
    /\ objects[<<ret.ns, ret.obj>>] = "drop_object"

\* C5: write, read and delete against an (ns, obj) that is not a created object return
\* ObjectDoesNotExist if ns exists and NamespaceDoesNotExist if it does not; read
\* reports the error at the call and hands out no cursor.
C5_Step ==
    /\ ret = Idle
    /\ ret'.call \in {"write", "read", "delete"}
    /\ NoFailure
    /\ <<ret'.ns, ret'.obj>> \notin Created
    => /\ ret'.res = IF ret'.ns \in DOMAIN namespaces
                     THEN "ObjectDoesNotExist" ELSE "NamespaceDoesNotExist"
       /\ cursor' = cursor
C5_NotCreated == [][C5_Step]_vars

\* C6: a successful write leaves, for every key its batch names, the value of the last
\* row of the batch naming it, and leaves every other key as it was (last write wins,
\* within a batch and across batches); and a cursor drained to its end over an object
\* has yielded exactly the object's rows, one per key, values as held.
C6_WriteStep ==
    Calls("write") /\ ret'.res = "Ok" =>
        LET before == TreeOf(ret'.ns, ret'.obj)
            after == namespaces'[ret'.ns][ret'.obj]
        IN  \A k \in Keys :
                IF LastWrite(ret'.rows, k) = NoValue
                THEN /\ (k \in DOMAIN after) <=> (k \in DOMAIN before)
                     /\ k \in DOMAIN before => after[k] = before[k]
                ELSE k \in DOMAIN after /\ after[k] = LastWrite(ret'.rows, k)
C6_Drained ==
    cursor.state = "done" /\ cursor.handle = "live" =>
        LET tree == TreeOf(cursor.ns, cursor.obj) IN
        /\ Len(cursor.out) = Cardinality(DOMAIN tree)
        /\ {<<cursor.out[i].key, cursor.out[i].values>> : i \in DOMAIN cursor.out}
              = {<<k, tree[k]>> : k \in DOMAIN tree}
C6_RoundTrip == [][C6_WriteStep]_vars /\ []C6_Drained

\* a cursor over a created object was drained and yielded two rows
C6_Witness ==
    /\ cursor.state = "done"
    /\ cursor.handle = "live"
    /\ <<cursor.ns, cursor.obj>> \in Created
    /\ Len(cursor.out) = 2

\* C7: a successful delete(ns, obj, K) leaves the object holding exactly the rows it
\* held whose key is not in K, values unchanged; a key of K the object did not hold
\* causes no error and removes nothing.
C7_Step ==
    Calls("delete") /\ ret'.res = "Ok" =>
        LET before == TreeOf(ret'.ns, ret'.obj) IN
        namespaces'[ret'.ns][ret'.obj] =
            [k \in DOMAIN before \ KeySet(ret'.keys) |-> before[k]]
C7_DeleteComplement == [][C7_Step]_vars

\* a delete of two different keys succeeded on an object that still holds a row
C7_Witness ==
    /\ ret.call = "delete"
    /\ ret.res = "Ok"
    /\ <<ret.ns, ret.obj>> \in Created
    /\ Cardinality(KeySet(ret.keys)) = 2
    /\ \E k \in KeySet(ret.keys) : k \notin DOMAIN TreeOf(ret.ns, ret.obj)

\* C8: the count a successful delete returns is the number of keys it removed from the
\* object: a key that was not there when its removal was tried does not add to it.
C8_Step ==
    Calls("delete") /\ ret'.res = "Ok" =>
        ret'.count = Cardinality(DOMAIN TreeOf(ret'.ns, ret'.obj))
                     - Cardinality(DOMAIN namespaces'[ret'.ns][ret'.obj])
C8_DeleteCount == [][C8_Step]_vars

\* C9: the count a successful write returns is the length of its rows sequence,
\* overwriting and repeated rows included; an empty sequence returns 0.
C9_WriteCount ==
    ret.call = "write" /\ ret.res = "Ok" => ret.count = Len(ret.rows)

\* a write of two rows with the same key succeeded
C9_Witness ==
    /\ ret.call = "write"
    /\ ret.res = "Ok"
    /\ Len(ret.rows) = 2
    /\ ret.rows[1][1] = ret.rows[2][1]

\* C10: a namespace created anew owns no objects; and in it, create_object of a name
\* that an object of the dropped namespace had succeeds and makes an object that holds
\* no rows.
C10_Step ==
    /\ Calls("create_namespace") /\ ret'.res = "Ok" =>
          /\ \A o \in ObjectNames : <<ret'.ns, o>> \notin Created'
          /\ \A o \in tree_names(namespaces'[ret'.ns]) :
                /\ <<ret'.ns, o>> \notin DOMAIN objects
                /\ namespaces'[ret'.ns][o] = EmptyTree
    /\ /\ Calls("create_object")
       /\ NoFailure
       /\ ret'.ns \in DOMAIN namespaces
       /\ <<ret'.ns, ret'.obj>> \in DOMAIN objects
       /\ objects[<<ret'.ns, ret'.obj>>] = "drop_namespace"
       => /\ ret'.res = "Ok"
          /\ namespaces'[ret'.ns][ret'.obj] = EmptyTree
C10_CascadingDrop == [][C10_Step]_vars

\* an object that went with its namespace has been created again in the new namespace
\* of that name, and is empty
C10_Witness ==
    /\ ret.call = "create_object"
    /\ ret.res = "Ok"
    /\ TreeOf(ret.ns, ret.obj) = EmptyTree
    /\ objects[<<ret.ns, ret.obj>>] = "created_again"

\* the calls that name an object
ObjectCalls == {"create_object", "drop_object", "write", "read", "delete"}

\* C11: a successful drop_namespace(ns) leaves ns absent, ns stays absent until a
\* create_namespace(ns), and while ns is absent every create_object, drop_object, write,
\* read and delete naming it returns NamespaceDoesNotExist, for every object name, the
\* objects the namespace had included, whatever the state of the engine, and changes
\* nothing.
C11_Step ==
    /\ Calls("drop_namespace") /\ ret'.res = "Ok" => ret'.ns \notin DOMAIN namespaces'
    /\ \A n \in Names :
          n \notin DOMAIN namespaces /\ ~(Calls("create_namespace") /\ ret'.ns = n)
             => n \notin DOMAIN namespaces'
    /\ ret = Idle /\ ret'.call \in ObjectCalls /\ ret'.ns \notin DOMAIN namespaces
          => /\ ret'.res = "NamespaceDoesNotExist"
             /\ UNCHANGED <<namespaces, objects, cursor>>
C11_AfterDropNamespace == [][C11_Step]_vars

\* a write to an object that went with its namespace was answered NamespaceDoesNotExist
C11_Witness ==
    /\ ret.call = "write"
    /\ ret.res = "NamespaceDoesNotExist"
    /\ Len(ret.rows) > 0
    /\ <<ret.ns, ret.obj>> \in DOMAIN objects
    /\ objects[<<ret.ns, ret.obj>>] = "drop_namespace"
    /\ ret.ns \notin DOMAIN namespaces

\* the objects of a namespace that stand, by the history of the calls
ObjectsOf(n) == {p \in Created : p[1] = n}

\* C12: a create_object, drop_object, write, delete or drop_namespace on one namespace
\* leaves every other namespace as it was: present or absent, its set of objects and
\* the rows of each; and create_object of a name succeeds in a namespace that does not
\* have it whether or not another namespace has an object of that name (the name of
\* the engine's default tree aside).
C12_Step ==
    /\ ret = Idle /\ ret'.call \in {"create_object", "drop_object", "write", "delete",
                                    "drop_namespace"}
          => \A b \in TwoNames \ {ret'.ns} :
                /\ (b \in DOMAIN namespaces') <=> (b \in DOMAIN namespaces)
                /\ b \in DOMAIN namespaces => namespaces'[b] = namespaces[b]
                /\ ObjectsOf(b)' = ObjectsOf(b)
    /\ /\ Calls("create_object")
       /\ NoFailure
       /\ ret'.ns \in DOMAIN namespaces
       /\ <<ret'.ns, ret'.obj>> \notin Created
       /\ ret'.obj # DEFAULT_TREE_ID
       => /\ ret'.res = "Ok"
          /\ <<ret'.ns, ret'.obj>> \in Created'
C12_Isolation == [][C12_Step]_vars

\* a namespace was dropped next to another that has an object of the same name as one
\* of its own, and that object still stands and holds its row
C12_Witness ==
    /\ ret.call = "drop_namespace"
    /\ ret.res = "Ok"
    /\ \E b \in TwoNames \ {ret.ns}, o \in ObjectNames :
          /\ <<b, o>> \in Created
          /\ TreeOf(b, o) # EmptyTree
          /\ <<ret.ns, o>> \in DOMAIN objects
          /\ objects[<<ret.ns, o>>] = "drop_namespace"

\* C13: when the insertion of the i-th row of write(ns, obj, rows) fails, the call
\* returns a system error and no count, the object holds what it held with the rows
\* before position i written over it, none of the rows from position i on has been
\* inserted, and nothing else has changed.
C13_Step ==
    Calls("write") /\ ret'.at > 0 =>
        LET before == TreeOf(ret'.ns, ret'.obj)
            after == namespaces'[ret'.ns][ret'.obj]
            done == SubSeq(ret'.rows, 1, ret'.at - 1)
        IN  /\ ret'.res = "SystemError"
            /\ ret'.count = 0
            /\ ret'.err = SledErrorMapper_map(ret'.native)
            /\ \A k \in Keys :
                  IF LastWrite(done, k) = NoValue
                  THEN /\ (k \in DOMAIN after) <=> (k \in DOMAIN before)
                       /\ k \in DOMAIN before => after[k] = before[k]
                  ELSE k \in DOMAIN after /\ after[k] = LastWrite(done, k)
            /\ namespaces' = [namespaces EXCEPT ![ret'.ns][ret'.obj] = after]
            /\ UNCHANGED <<objects, cursor>>
C13_PartialWrite == [][C13_Step]_vars

\* a write of two rows failed on the second: the first is in the object, the second is not
C13_Witness ==
    /\ ret.call = "write"
    /\ ret.res = "SystemError"
    /\ ret.at = 2
    /\ <<ret.ns, ret.obj>> \in Created
    /\ ret.rows[1][1] # ret.rows[2][1]
    /\ ret.rows[1][1] \in DOMAIN TreeOf(ret.ns, ret.obj)
    /\ TreeOf(ret.ns, ret.obj)[ret.rows[1][1]] = ret.rows[1][2]
    /\ ret.rows[2][1] \notin DOMAIN TreeOf(ret.ns, ret.obj)

\* the domain error whose condition holds for a call before it is made, "" when none
\* does: the namespace is looked up in the table, the object in the names of the
\* trees of the namespace's database
DomainCondition(c) ==
    CASE c.call = "create_namespace" ->
            IF c.ns \in DOMAIN namespaces THEN "NamespaceAlreadyExists" ELSE ""
      [] c.call = "drop_namespace" ->
            IF c.ns \in DOMAIN namespaces THEN "" ELSE "NamespaceDoesNotExist"
      [] c.call = "create_object" ->
            IF c.ns \notin DOMAIN namespaces THEN "NamespaceDoesNotExist"
            ELSE IF c.obj \in DOMAIN namespaces[c.ns] THEN "ObjectAlreadyExists" ELSE ""
      [] OTHER ->
            IF c.ns \notin DOMAIN namespaces THEN "NamespaceDoesNotExist"
            ELSE IF c.obj \notin DOMAIN namespaces[c.ns] THEN "ObjectDoesNotExist" ELSE ""

\* C14, as stated: a call made while the engine is down and while the condition of one
\* of its domain errors holds returns the system error, not the domain error.
C14_SystemStep ==
    ret = Idle /\ ret'.call # "none" /\ ret'.failing /\ DomainCondition(ret') # ""
        => ret'.res = "SystemError"
C14_SystemFirst == [][C14_SystemStep]_vars

\* C14, as the code has it: the domain conditions the adapter decides without an engine
\* call that can fail come first. With the engine down, a call returns its domain error
\* when the namespace is absent (present, for create_namespace), when create_object
\* finds the object's name among the trees and when write, read or delete do not find
\* it; it returns the system error only out of the engine call it goes on to make,
\* which for drop_object on a present namespace is the one that tells whether the
\* object is there; drop_namespace makes no such call and succeeds.
C14_DomainStep ==
    ret = Idle /\ ret'.call # "none" /\ ret'.failing =>
        LET decided ==
                IF ret'.call = "drop_object" /\ ret'.ns \in DOMAIN namespaces
                THEN "" ELSE DomainCondition(ret')
        IN  IF decided # ""
            THEN ret'.res = decided /\ UNCHANGED <<namespaces, objects, cursor>>
            ELSE IF ret'.call = "drop_namespace"
            THEN ret'.res = "Ok"
            ELSE /\ ret'.res = "SystemError"
                 /\ ret'.err = SledErrorMapper_map(ret'.native)
                 /\ UNCHANGED <<namespaces, objects, cursor>>
C14_DomainFirst == [][C14_DomainStep]_vars

\* with the engine down, a write to an object that is not there was answered
\* ObjectDoesNotExist
C14_Witness ==
    /\ ret.call = "write"
    /\ ret.failing
    /\ ret.res = "ObjectDoesNotExist"
    /\ ret.ns \in DOMAIN namespaces

\* C15, as stated: the mapper returns a system error for every native error: an
\* unrecoverable one for CollectionNotFound, Unsupported, Corruption with and without
\* a place (these two with the cause) and ReportableBug, and one of the I/O kind, with
\* the I/O error in it, for Io and for nothing else.
C15_Total ==
    ret.res = "mapped" =>
        /\ ret.err.kind = (IF ret.native.variant = "Io" THEN "io" ELSE "unrecoverable")
        /\ ret.native.variant = "Corruption" => ret.err.cause
        /\ ret.native.variant = "Io" => ret.err.cause /\ ret.err.arg = ret.native.payload

\* C15, as the code has it: the same, but for a CollectionNotFound whose name is not
\* UTF-8 text: mapping it panics and no system error is returned.
C15_TotalOnText ==
    ret.res = "mapped" =>
        IF ret.native.variant = "CollectionNotFound" /\ ~from_utf8(ret.native.payload, 1)
        THEN ret.err = Panic
        ELSE /\ ret.err.kind = (IF ret.native.variant = "Io" THEN "io" ELSE "unrecoverable")
             /\ ret.native.variant = "Corruption" => ret.err.cause
             /\ ret.native.variant \notin {"Corruption", "Io"} => ~ret.err.cause
             /\ ret.native.variant = "Io" =>
                   ret.err.cause /\ ret.err.arg = ret.native.payload
             /\ ret.native.variant = "CollectionNotFound" =>
                   ret.err.arg = ret.native.payload

\* a CollectionNotFound with a two-byte character in its name was mapped to an
\* unrecoverable error that names it
C15_Witness ==
    /\ ret.res = "mapped"
    /\ ret.native = Native("CollectionNotFound", <<65, 195, 169>>)
    /\ ret.err.kind = "unrecoverable"
    /\ ret.err.arg = <<65, 195, 169>>

\* the calls that make and unmake namespaces and objects
LifecycleCalls == {"create_namespace", "drop_namespace", "create_object", "drop_object"}

\* C16: the namespaces present and the objects present (the trees of each namespace's
\* database, and the objects standing by the history of the calls) change only in a
\* step that calls create_namespace, drop_namespace, create_object or drop_object; a
\* write, read or delete returns NamespaceDoesNotExist exactly when the namespace is
\* absent and ObjectDoesNotExist exactly when the namespace is there and the object is
\* not, and then leaves the whole state as it was, so that the same call made again
\* returns the same error.
C16_Step ==
    /\ ~(ret = Idle /\ ret'.call \in LifecycleCalls)
          => /\ DOMAIN namespaces' = DOMAIN namespaces
             /\ \A n \in DOMAIN namespaces : DOMAIN namespaces'[n] = DOMAIN namespaces[n]
             /\ Created' = Created
    /\ ret = Idle /\ ret'.call \in {"write", "read", "delete"}
          => /\ ret'.res = "NamespaceDoesNotExist" <=> ret'.ns \notin DOMAIN namespaces
             /\ ret'.res = "ObjectDoesNotExist"
                   <=> /\ ret'.ns \in DOMAIN namespaces
                       /\ ret'.obj \notin DOMAIN namespaces[ret'.ns]
             /\ ret'.res \in {"NamespaceDoesNotExist", "ObjectDoesNotExist"}
                   => UNCHANGED <<namespaces, objects, cursor>>
C16_NoImplicitCreation == [][C16_Step]_vars

\* a write of a row to an object that was never made was answered ObjectDoesNotExist and
\* the namespace still has no tree of that name
C16_Witness ==
    /\ ret.call = "write"
    /\ Len(ret.rows) > 0
    /\ ret.res = "ObjectDoesNotExist"
    /\ ret.ns \in DOMAIN namespaces
    /\ ret.obj \notin DOMAIN namespaces[ret.ns]
    /\ <<ret.ns, ret.obj>> \notin DOMAIN objects

\* the namespace is as create_namespace left it: no call has made an object in it
Fresh(n) ==
    /\ n \in DOMAIN namespaces
    /\ namespaces[n] = sled_open
    /\ \A o \in ObjectNames :
          <<n, o>> \in DOMAIN objects => objects[<<n, o>>] = "drop_namespace"

\* C17: in a namespace as create_namespace left it, and with no engine failure,
\* create_object succeeds for every object name, and write, read, delete and
\* drop_object return ObjectDoesNotExist for every object name.
C17_Step ==
    ret = Idle /\ ret'.call \in ObjectCalls /\ Fresh(ret'.ns) /\ NoFailure
        => ret'.res = (IF ret'.call = "create_object" THEN "Ok" ELSE "ObjectDoesNotExist")
C17_EmptyAfterCreate == [][C17_Step]_vars

\* C18: create_namespace(n) of a present n returns NamespaceAlreadyExists and leaves
\* n's database and everything else as it was, whether the engine is down or not (the
\* engine is not called); of an absent n, it returns the mapped system error when the
\* open fails, which it does when the engine is down, and then the table is unchanged
\* and n is still absent; and whenever n is absent a create_namespace(n) that succeeds
\* can be made.
C18_Step ==
    Calls("create_namespace") =>
        IF ret'.ns \in DOMAIN namespaces
        THEN /\ ret'.res = "NamespaceAlreadyExists"
             /\ UNCHANGED <<namespaces, objects, cursor>>
        ELSE /\ ret'.failing => ret'.res = "SystemError"
             /\ ret'.res \in {"SystemError", "Ok"}
             /\ ret'.res = "SystemError"
                   => /\ ret'.err = SledErrorMapper_map(ret'.native)
                      /\ UNCHANGED <<namespaces, objects, cursor>>
C18_CanCreate ==
    \A n \in Names :
        Free /\ n \notin DOMAIN namespaces
            => ENABLED (create_namespace(n) /\ ret'.res = "Ok" /\ n \in DOMAIN namespaces')
C18_CreateNamespaceErrors == [][C18_Step]_vars /\ []C18_CanCreate

\* the open failed in create_namespace of a name that had been a namespace before: the
\* system error is returned and the name is not in the table
C18_Witness ==
    /\ ret.call = "create_namespace"
    /\ ret.res = "SystemError"
    /\ ret.err.kind = "io"
    /\ ret.ns \notin DOMAIN namespaces
    /\ \E o \in ObjectNames :
          <<ret.ns, o>> \in DOMAIN objects /\ objects[<<ret.ns, o>>] = "drop_namespace"

\* C19: once drop_namespace(ns) or drop_object(ns, obj) has completed under a cursor
\* read(ns, obj) handed out, no pull from the cursor yields a row: what a pull adds to
\* the items of the cursor is an error.
C19_Step ==
    /\ cursor.handle \in {"orphan", "dropped"}
    /\ Len(cursor'.out) > Len(cursor.out)
    => cursor'.out[Len(cursor'.out)].err # NoError
C19_CursorInvalidated == [][C19_Step]_vars

\* C20: when the removal of the i-th key of delete(ns, obj, keys) fails, the call
\* returns a system error and no count, the object holds what it held less the keys
\* before position i, no key from position i on has been removed by the call, and
\* nothing else has changed.
C20_Step ==
    Calls("delete") /\ ret'.at > 0 =>
        LET before == TreeOf(ret'.ns, ret'.obj)
            gone == KeySet(SubSeq(ret'.keys, 1, ret'.at - 1))
        IN  /\ ret'.res = "SystemError"
            /\ ret'.count = 0
            /\ ret'.err = SledErrorMapper_map(ret'.native)
            /\ namespaces' = [namespaces EXCEPT ![ret'.ns][ret'.obj] =
                                 [k \in DOMAIN before \ gone |-> before[k]]]
            /\ UNCHANGED <<objects, cursor>>
C20_PartialDelete == [][C20_Step]_vars

\* a delete of two keys failed on the second: the first is gone, the second is still
\* in the object
C20_Witness ==
    /\ ret.call = "delete"
    /\ ret.res = "SystemError"
    /\ ret.at = 2
    /\ <<ret.ns, ret.obj>> \in Created
    /\ ret.keys[1] # ret.keys[2]
    /\ ret.keys[1] \notin DOMAIN TreeOf(ret.ns, ret.obj)
    /\ ret.keys[2] \in DOMAIN TreeOf(ret.ns, ret.obj)

\* C21: a call in which the engine returned a native error returns a system error, and
\* the system error a call returns is the mapper's image of the native error the engine
\* returned; a call in which it returned none returns no system error. Likewise for the
\* items of a cursor: an item for which the engine returned a native error is the error
\* the mapper makes of it and no row, and the other items are rows.
C21_MapperImage ==
    /\ ret.call # "none" /\ ret.res # "" =>
          IF ret.native # NoNative
          THEN /\ ret.res = "SystemError"
               /\ ret.err = SledErrorMapper_map(ret.native)
               /\ ret.err # Panic
          ELSE ret.res # "SystemError" /\ ret.err = NoError
    /\ \A i \in DOMAIN cursor.out :
          IF cursor.out[i].native # NoNative
          THEN /\ cursor.out[i].err = SledErrorMapper_map(cursor.out[i].native)
               /\ cursor.out[i].err # Panic
               /\ cursor.out[i].values = NoValue
          ELSE cursor.out[i].err = NoError /\ cursor.out[i].values # NoValue

\* a cursor yielded a row and then the error the mapper makes of a corruption
C21_Witness ==
    /\ cursor.state = "failed"
    /\ Len(cursor.out) = 2
    /\ cursor.out[1].err = NoError
    /\ cursor.out[2].native = Native("Corruption", <<1>>)
    /\ cursor.out[2].err.kind = "unrecoverable"
    /\ cursor.out[2].err.cause

\* the rows among the items a cursor has yielded, in the order it yielded them
RowsOut == SelectSeq(cursor.out, LAMBDA item : item.err = NoError)

\* C22: the rows a cursor yields come in ascending order of their keys as byte
\* strings, so no key comes twice, however the rows were written; and a cursor drained
\* to its end has yielded a row for every key of the object.
C22_Ascending ==
    /\ \A i, j \in DOMAIN RowsOut : i < j => Less(RowsOut[i].key, RowsOut[j].key)
    /\ cursor.state = "done" /\ cursor.handle = "live"
          => {RowsOut[i].key : i \in DOMAIN RowsOut} = DOMAIN TreeOf(cursor.ns, cursor.obj)

\* a drained cursor yielded the key <<1, 0>> before the key <<2>>
C22_Witness ==
    /\ cursor.state = "done"
    /\ cursor.handle = "live"
    /\ Len(cursor.out) = 2
    /\ cursor.out[1].key = <<1, 0>>
    /\ cursor.out[2].key = <<2>>

\* C23: the table holds one database handle for each present name and no other. A
\* name comes into the table only in a create_namespace of it that succeeds, with a
\* database opened in that call; such a call is made on an absent name only, so no
\* handle is ever replaced; a name leaves the table, and its handle is let go, only in
\* a drop_namespace of it that succeeds; such a call is made on a present name only,
\* so no handle is let go twice; and no other step, a failed create_namespace or
\* drop_namespace included, changes which names are in the table.
C23_Step ==
    \A n \in TwoNames :
        LET creates == Calls("create_namespace") /\ ret'.ns = n /\ ret'.res = "Ok"
            drops == Calls("drop_namespace") /\ ret'.ns = n /\ ret'.res = "Ok"
        IN  /\ creates <=> (n \notin DOMAIN namespaces /\ n \in DOMAIN namespaces')
            /\ creates => namespaces'[n] = sled_open
            /\ drops <=> (n \in DOMAIN namespaces /\ n \notin DOMAIN namespaces')
            /\ ~creates /\ ~drops => (n \in DOMAIN namespaces' <=> n \in DOMAIN namespaces)
C23_Handles == [][C23_Step]_vars

\* a second drop_namespace of a name was answered NamespaceDoesNotExist, while the other
\* namespace is still there
C23_Witness ==
    /\ ret.call = "drop_namespace"
    /\ ret.res = "NamespaceDoesNotExist"
    /\ \E o \in ObjectNames :
          <<ret.ns, o>> \in DOMAIN objects /\ objects[<<ret.ns, o>>] = "drop_namespace"
    /\ DOMAIN namespaces = TwoNames \ {ret.ns}

\* the domain errors of the calls
DomainErrors ==
    {"NamespaceAlreadyExists", "NamespaceDoesNotExist", "ObjectAlreadyExists",
     "ObjectDoesNotExist"}

\* C24: a call that returns a domain error, a read whatever it returns, and every pull
\* from a cursor and the letting go of it, leave the namespaces, the trees of every
\* namespace, the rows of every tree and the standing objects as they were.
C24_Step ==
    \/ ret = Idle /\ ret'.call # "none" /\ ret'.res \in DomainErrors
    \/ Calls("read")
    \/ ret' = ret /\ cursor' # cursor
    => UNCHANGED <<namespaces, objects>>
C24_Frame == [][C24_Step]_vars

\* a cursor over a made object was drained of its one row, and the object holds that row
C24_Witness ==
    /\ cursor.state = "done"
    /\ cursor.handle = "live"
    /\ <<cursor.ns, cursor.obj>> \in Created
    /\ Len(cursor.out) = 1
    /\ DOMAIN TreeOf(cursor.ns, cursor.obj) = {cursor.out[1].key}
    /\ TreeOf(cursor.ns, cursor.obj)[cursor.out[1].key] = cursor.out[1].values
====
